---------------------------- MODULE Spec2Model ----------------------------
(***************************************************************************)
(* Model of the dash-chat LangChain SSE streaming example:                 *)
(*   - RealTimeSSECallback, the tag-aware splitter that turns LLM tokens   *)
(*     into typed events (langchain_sse_handler.py);                       *)
(*   - LangChainSSEHandler, the registry of active streams, the response   *)
(*     generator and its worker thread (langchain_sse_handler.py);         *)
(*   - the /api/sse/chat endpoint with its processed-messages set and the  *)
(*     periodic cleanup thread (app_langchain_example.py).                 *)
(*                                                                         *)
(* Text is a sequence of one-character strings.  Python's None, pushed on  *)
(* the queue as the end-of-stream sentinel, is the record NoneEvent.       *)
(***************************************************************************)
EXTENDS Integers, Sequences, FiniteSets, TLC

(***************************************************************************)
(* Bounds of the model.                                                    *)
(***************************************************************************)
\* number of tokens the LLM delivers to one callback object (SpecSplit)
MaxTokens == 3

\* number of requests sent to /api/sse/chat (Spec)
NumRequests == 2

\* number of tokens the LLM delivers within one streamed response (Spec)
MaxStreamTokens == 1

\* keep-alive lines sent, over all responses, while a queue is empty (Spec)
MaxKeepAlives == 1

\* calls of stop_stream / get_stream_status made by other code (Spec)
MaxCalls == 2

(***************************************************************************)
(* Text helpers.                                                           *)
(***************************************************************************)
\* the literal '<think>' of _process_buffer
OPEN_TAG == <<"<", "t", "h", "i", "n", "k", ">">>

\* the literal '</think>' of _process_buffer
CLOSE_TAG == <<"<", "/", "t", "h", "i", "n", "k", ">">>

\* mutant: the open tag is skipped by the length of the close tag
OPEN_SKIP_as_close == Len(CLOSE_TAG)

\* self.buffer[idx + 7:] skips len('<think>') characters
OPEN_SKIP == 7

\* mutant: the closing tag is skipped with the length of the opening tag
CLOSE_SKIP_as_open == OPEN_SKIP

\* self.buffer[idx + 8:] skips len('</think>') characters
CLOSE_SKIP == 8

\* mutant: text is held back until it is as long as a tag
CHUNK_THRESHOLD_as_tag == Len(OPEN_TAG)

\* len(self.buffer) >= 3
CHUNK_THRESHOLD == 3

\* s[i:] of Python, i counted from 0
DropFirst(s, i) == SubSeq(s, i + 1, Len(s))

\* s[:i] of Python, i counted from 0
TakeFirst(s, i) == SubSeq(s, 1, i)

\* the positions (from 0) at which sub occurs in s
Occurrences(s, sub) ==
    { i \in 0..(Len(s) - Len(sub)) : SubSeq(s, i + 1, i + Len(sub)) = sub }

\* Python's `sub in s`
Contains(s, sub) == Occurrences(s, sub) # {}

\* Python's s.index(sub), defined when sub occurs in s
Index(s, sub) ==
    CHOOSE i \in Occurrences(s, sub) : \A j \in Occurrences(s, sub) : i <= j

(***************************************************************************)
(* Events put on the queue by the callback.                                *)
(***************************************************************************)
StreamStartEvent(mid) ==
    [type |-> "stream_start", message_id |-> mid, role |-> "assistant"]

ContentEvent(mid, chunk) ==
    [type |-> "content", message_id |-> mid, chunk |-> chunk]

ThinkingStartEvent(mid) == [type |-> "thinking_start", message_id |-> mid]

ThinkingEndEvent(mid) == [type |-> "thinking_end", message_id |-> mid]

StreamCompleteEvent(mid, full) ==
    [type |-> "stream_complete", message_id |-> mid, full_content |-> full]

ErrorEvent(mid, msg) == [type |-> "error", message_id |-> mid, error |-> msg]

\* event_queue.put(None)
NoneEvent == [type |-> "None"]

(***************************************************************************)
(* RealTimeSSECallback.  A callback object is the record                   *)
(*   [message_id, full_content, in_thinking, buffer];                      *)
(* every method returns the new object and the events it put, in order.    *)
(***************************************************************************)
NewCallback(mid) ==
    [message_id |-> mid, full_content |-> <<>>, in_thinking |-> FALSE,
     buffer |-> <<>>]

RECURSIVE process_buffer_ignores_state(_)
\* mutant: '<think>' is looked for without testing in_thinking
process_buffer_ignores_state(cb) ==
    IF Contains(cb.buffer, OPEN_TAG)
    THEN LET idx == Index(cb.buffer, OPEN_TAG)
             pre_think == TakeFirst(cb.buffer, idx)
             puts == (IF idx > 0 /\ pre_think # <<>>
                      THEN <<ContentEvent(cb.message_id, pre_think)>>
                      ELSE <<>>)
                     \o <<ThinkingStartEvent(cb.message_id)>>
             rest == process_buffer_ignores_state(
                        [cb EXCEPT !.in_thinking = TRUE,
                                   !.buffer = DropFirst(cb.buffer, idx + OPEN_SKIP)])
         IN  [cb |-> rest.cb, put |-> puts \o rest.put]
    ELSE IF cb.in_thinking /\ Contains(cb.buffer, CLOSE_TAG)
    THEN LET idx == Index(cb.buffer, CLOSE_TAG)
             thinking_content == TakeFirst(cb.buffer, idx)
             puts == (IF idx > 0 /\ thinking_content # <<>>
                      THEN <<ContentEvent(cb.message_id, thinking_content)>>
                      ELSE <<>>)
                     \o <<ThinkingEndEvent(cb.message_id)>>
             rest == process_buffer_ignores_state(
                        [cb EXCEPT !.in_thinking = FALSE,
                                   !.buffer = DropFirst(cb.buffer, idx + CLOSE_SKIP)])
         IN  [cb |-> rest.cb, put |-> puts \o rest.put]
    ELSE IF Len(cb.buffer) >= CHUNK_THRESHOLD
    THEN [cb |-> [cb EXCEPT !.buffer = <<>>],
          put |-> <<ContentEvent(cb.message_id, cb.buffer)>>]
    ELSE [cb |-> cb, put |-> <<>>]

RECURSIVE process_buffer(_)
process_buffer(cb) ==
    IF ~cb.in_thinking /\ Contains(cb.buffer, OPEN_TAG)
    THEN LET idx == Index(cb.buffer, OPEN_TAG)
             pre_think == TakeFirst(cb.buffer, idx)
             puts == (IF idx > 0 /\ pre_think # <<>>
                      THEN <<ContentEvent(cb.message_id, pre_think)>>
                      ELSE <<>>)
                     \o <<ThinkingStartEvent(cb.message_id)>>
             rest == process_buffer(
                        [cb EXCEPT !.in_thinking = TRUE,
                                   !.buffer = DropFirst(cb.buffer, idx + OPEN_SKIP)])
         IN  [cb |-> rest.cb, put |-> puts \o rest.put]
    ELSE IF cb.in_thinking /\ Contains(cb.buffer, CLOSE_TAG)
    THEN LET idx == Index(cb.buffer, CLOSE_TAG)
             thinking_content == TakeFirst(cb.buffer, idx)
             puts == (IF idx > 0 /\ thinking_content # <<>>
                      THEN <<ContentEvent(cb.message_id, thinking_content)>>
                      ELSE <<>>)
                     \o <<ThinkingEndEvent(cb.message_id)>>
             rest == process_buffer(
                        [cb EXCEPT !.in_thinking = FALSE,
                                   !.buffer = DropFirst(cb.buffer, idx + CLOSE_SKIP)])
         IN  [cb |-> rest.cb, put |-> puts \o rest.put]
    ELSE IF Len(cb.buffer) >= CHUNK_THRESHOLD
    THEN [cb |-> [cb EXCEPT !.buffer = <<>>],
          put |-> <<ContentEvent(cb.message_id, cb.buffer)>>]
    ELSE [cb |-> cb, put |-> <<>>]

on_llm_start(cb) ==
    [cb |-> cb, put |-> <<StreamStartEvent(cb.message_id)>>]

\* mutant: the token replaces the buffer instead of being appended to it
on_llm_new_token_overwrites(cb, token) ==
    process_buffer([cb EXCEPT !.full_content = cb.full_content \o token,
                              !.buffer = token])

\* both branches of the rate-limit test call _process_buffer; last_send_time
\* has no other effect
on_llm_new_token(cb, token) ==
    process_buffer([cb EXCEPT !.full_content = cb.full_content \o token,
                              !.buffer = cb.buffer \o token])

\* mutant: the residual buffer is not flushed
on_llm_end_drops_residue(cb) ==
    [cb |-> [cb EXCEPT !.buffer = <<>>],
     put |-> <<StreamCompleteEvent(cb.message_id, cb.full_content), NoneEvent>>]

\* mutant: stream_complete is put before the residual buffer
on_llm_end_complete_first(cb) ==
    [cb |-> [cb EXCEPT !.buffer = <<>>],
     put |-> <<StreamCompleteEvent(cb.message_id, cb.full_content)>>
             \o (IF cb.buffer # <<>>
                 THEN <<ContentEvent(cb.message_id, cb.buffer)>>
                 ELSE <<>>)
             \o <<NoneEvent>>]

on_llm_end(cb) ==
    [cb |-> [cb EXCEPT !.buffer = <<>>],
     put |-> (IF cb.buffer # <<>>
              THEN <<ContentEvent(cb.message_id, cb.buffer)>>
              ELSE <<>>)
             \o <<StreamCompleteEvent(cb.message_id, cb.full_content)>>
             \o <<NoneEvent>>]

\* mutant: the sentinel is put before the error event
on_llm_error_sentinel_first(cb, error) ==
    [cb |-> cb, put |-> <<NoneEvent, ErrorEvent(cb.message_id, error)>>]

on_llm_error(cb, error) ==
    [cb |-> cb, put |-> <<ErrorEvent(cb.message_id, error), NoneEvent>>]

(***************************************************************************)
(* Tokens the LLM may deliver.                                             *)
(***************************************************************************)
\* every way of cutting a tag in two, the tag itself included
TagPieces(tag) ==
    { TakeFirst(tag, k) : k \in 1..Len(tag) } \cup
    { DropFirst(tag, k) : k \in 1..(Len(tag) - 1) }

\* text without a tag, shorter and longer than the threshold
Plains == { <<"a">>, <<"a", "b", "c", "d">> }

\* P + '<think>' + T + '</think>' + S in one token
Wrapped(P, T, S) == P \o OPEN_TAG \o T \o CLOSE_TAG \o S

Tokens ==
    TagPieces(OPEN_TAG) \cup TagPieces(CLOSE_TAG) \cup Plains \cup {<<>>}
    \cup { Wrapped(P, T, S) : P \in Plains, T \in Plains, S \in Plains }

(***************************************************************************)
(* State.                                                                  *)
(***************************************************************************)
VARIABLES
    \* one callback object driven on its own (SpecSplit)
    callback,       \* the RealTimeSSECallback object
    event_queue,    \* everything the callback has put on its queue
    fed,            \* the tokens passed to on_llm_new_token so far
    llm_pc,         \* "new" | "running" | "ended" | "failed"
    \* the application (Spec)
    processed_messages, \* the identifiers of the module-level set that the
                        \* requests of the model can carry
    processed_other,    \* how many other identifiers the set holds
    active_streams,     \* LangChainSSEHandler.active_streams
    now,                \* the clock: the number of time.time() readings so
                        \* far, each reading being later than the one before
    req_pc,             \* where each sse_chat request handler stands
    req_args,           \* the prompt and message_id of each request
    response,           \* what each sse_chat call returned
    queue,              \* the queue.Queue made by each create_sse_response
    pushed,             \* history: every put on that queue, and who made it
    delivered,          \* the events each generate() has yielded as `data:`
    keepalives,         \* the keep-alive lines each generate() has yielded
    gen_pc,             \* where each generate() stands
    thread_pc,          \* where each run_llm thread stands
    cb,                 \* the RealTimeSSECallback of each generate()
    ntok,               \* tokens delivered to that callback
    call                \* the caller of stop_stream / get_stream_status

splitVars == <<callback, event_queue, fed, llm_pc>>

appVars == <<processed_messages, processed_other, active_streams, now,
             req_pc, req_args, response, queue, pushed, delivered,
             keepalives, gen_pc, thread_pc, cb, ntok, call>>

vars == <<callback, event_queue, fed, llm_pc,
          processed_messages, processed_other, active_streams, now,
          req_pc, req_args, response, queue, pushed, delivered,
          keepalives, gen_pc, thread_pc, cb, ntok, call>>

\* message identifier of the callback driven on its own
SplitId == "m1"

InitSplit ==
    /\ callback = NewCallback(SplitId)
    /\ event_queue = <<>>
    /\ fed = <<>>
    /\ llm_pc = "new"

\* the requests; each makes at most one create_sse_response call, so a
\* request also names the queue, generator, thread and callback of that call
Requests == 1..NumRequests

\* message_id values a request can carry, besides the missing or empty ""
MessageIds == {"m1", "m2"}

\* Requests are numbered in order of arrival and identifiers in order of first
\* use: request r carries one of the first r identifiers.
IdsFor(r) == {"m1"} \cup (IF r > 1 THEN {"m2"} ELSE {})

\* prompt values a request can carry; "" is a missing or empty parameter
Prompts == {"a%20b"}

\* urllib.parse.unquote on the prompts of the model
Unquote(prompt) == IF prompt = "a%20b" THEN "a b" ELSE prompt

\* if len(processed_messages) > 1000
CLEANUP_THRESHOLD == 1000

\* len(processed_messages)
ProcessedLen == Cardinality(processed_messages) + processed_other

\* the caller of the handler's public methods, between two calls
IdleCall == [pc |-> "idle", op |-> "none", message_id |-> "",
             result |-> [kind |-> "none"], calls |-> 0]

\* The module-level state with no request in progress.  The
\* processed-messages set holds the identifiers of CLEANUP_THRESHOLD earlier
\* requests whose streams are over, so that the cleanup thread's test can
\* succeed once one more identifier is added; behaviours in which Cleanup
\* clears nothing are those of a freshly started server.
InitApp ==
    /\ processed_messages = {}
    /\ processed_other = CLEANUP_THRESHOLD
    /\ active_streams = <<>>
    /\ now = 0
    /\ req_pc = [r \in Requests |-> "new"]
    /\ req_args = [r \in Requests |-> [prompt |-> "", message_id |-> ""]]
    /\ response = [r \in Requests |-> "none"]
    /\ queue = [r \in Requests |-> <<>>]
    /\ pushed = [r \in Requests |-> <<>>]
    /\ delivered = [r \in Requests |-> <<>>]
    /\ keepalives = [r \in Requests |-> 0]
    /\ gen_pc = [r \in Requests |-> "none"]
    /\ thread_pc = [r \in Requests |-> "none"]
    /\ cb = [r \in Requests |-> NewCallback("")]
    /\ ntok = [r \in Requests |-> 0]
    /\ call = IdleCall

Init == InitSplit /\ InitApp

(***************************************************************************)
(* SpecSplit: the LLM drives one callback object.                          *)
(***************************************************************************)
SplitOnLlmStart ==
    /\ llm_pc = "new"
    /\ event_queue' = event_queue \o on_llm_start(callback).put
    /\ callback' = on_llm_start(callback).cb
    /\ llm_pc' = "running"
    /\ UNCHANGED <<fed, appVars>>

SplitOnLlmNewToken ==
    /\ llm_pc = "running"
    /\ Len(fed) < MaxTokens
    /\ \E token \in Tokens :
         /\ event_queue' = event_queue \o on_llm_new_token(callback, token).put
         /\ callback' = on_llm_new_token(callback, token).cb
         /\ fed' = Append(fed, token)
    /\ UNCHANGED <<llm_pc, appVars>>

SplitOnLlmEnd ==
    /\ llm_pc = "running"
    /\ event_queue' = event_queue \o on_llm_end(callback).put
    /\ callback' = on_llm_end(callback).cb
    /\ llm_pc' = "ended"
    /\ UNCHANGED <<fed, appVars>>

SplitOnLlmError ==
    /\ llm_pc = "running"
    /\ event_queue' = event_queue \o on_llm_error(callback, "llm failed").put
    /\ callback' = on_llm_error(callback, "llm failed").cb
    /\ llm_pc' = "failed"
    /\ UNCHANGED <<fed, appVars>>

NextSplit ==
    \/ SplitOnLlmStart
    \/ SplitOnLlmNewToken
    \/ SplitOnLlmEnd
    \/ SplitOnLlmError

\* the callback alone: no request has been made and none is made
InitSplitOnly == Init

SpecSplit == InitSplitOnly /\ [][NextSplit]_vars

(***************************************************************************)
(* The registry, as a function from the registered identifiers.            *)
(***************************************************************************)
\* d[k] = v
DictSet(d, k, v) == [x \in DOMAIN d \cup {k} |-> IF x = k THEN v ELSE d[x]]

\* del d[k], for k in d
DictDel(d, k) == [x \in DOMAIN d \ {k} |-> d[x]]

\* the events evs put on the queue of request r by `by`
\* mutant: a last-in first-out channel
Put_lifo(r, evs, by) ==
    /\ queue' = [queue EXCEPT ![r] = evs \o @]
    /\ pushed' = [pushed EXCEPT
                    ![r] = @ \o [i \in 1..Len(evs) |-> [event |-> evs[i], by |-> by]]]

Put(r, evs, by) ==
    /\ queue' = [queue EXCEPT ![r] = @ \o evs]
    /\ pushed' = [pushed EXCEPT
                    ![r] = @ \o [i \in 1..Len(evs) |-> [event |-> evs[i], by |-> by]]]

(***************************************************************************)
(* sse_chat, the /api/sse/chat endpoint.  Flask serves requests on         *)
(* concurrent threads, which may be switched between any two statements.   *)
(***************************************************************************)
\* mutant: the parameters are not validated
SseChatCheck_unvalidated(r, prompt, message_id) ==
    /\ req_pc[r] = "new"
    /\ \A q \in Requests : q < r => req_pc[q] # "new"
    /\ req_args' = [req_args EXCEPT ![r] = [prompt |-> prompt, message_id |-> message_id]]
    /\ IF message_id \in processed_messages
       THEN /\ response' = [response EXCEPT ![r] = "200 Message already processed"]
            /\ req_pc' = [req_pc EXCEPT ![r] = "done"]
       ELSE /\ req_pc' = [req_pc EXCEPT ![r] = "add"]
            /\ UNCHANGED response
    /\ UNCHANGED <<splitVars, processed_messages, processed_other, active_streams,
                   now, queue, pushed, delivered, keepalives, gen_pc, thread_pc,
                   cb, ntok, call>>

\* reading the parameters, validating them and testing processed_messages
SseChatCheck(r, prompt, message_id) ==
    /\ req_pc[r] = "new"
    /\ \A q \in Requests : q < r => req_pc[q] # "new"
    /\ req_args' = [req_args EXCEPT ![r] = [prompt |-> prompt, message_id |-> message_id]]
    /\ IF prompt = "" \/ message_id = ""
       THEN /\ response' = [response EXCEPT ![r] = "400 Missing required parameters"]
            /\ req_pc' = [req_pc EXCEPT ![r] = "done"]
       ELSE IF message_id \in processed_messages
       THEN /\ response' = [response EXCEPT ![r] = "200 Message already processed"]
            /\ req_pc' = [req_pc EXCEPT ![r] = "done"]
       ELSE /\ req_pc' = [req_pc EXCEPT ![r] = "add"]
            /\ UNCHANGED response
    /\ UNCHANGED <<splitVars, processed_messages, processed_other, active_streams,
                   now, queue, pushed, delivered, keepalives, gen_pc, thread_pc,
                   cb, ntok, call>>

\* processed_messages.add(message_id)
SseChatAdd(r) ==
    /\ req_pc[r] = "add"
    /\ processed_messages' = processed_messages \cup {req_args[r].message_id}
    /\ req_pc' = [req_pc EXCEPT ![r] = "create"]
    /\ UNCHANGED <<splitVars, processed_other, active_streams, now, req_args,
                   response, queue, pushed, delivered, keepalives, gen_pc,
                   thread_pc, cb, ntok, call>>

\* the entry create_sse_response stores for a prompt and a new queue
StreamEntry(prompt, t, q) ==
    [prompt |-> prompt, start_time |-> t, content |-> <<>>, queue |-> q]

\* create_sse_response up to its return: a new queue, the registry entry and
\* the generator object, which the server starts to iterate later.  sse_chat
\* never passes an empty message_id, so no uuid is drawn.
create_sse_response(r, prompt, message_id) ==
    /\ queue' = [queue EXCEPT ![r] = <<>>]
    /\ active_streams' = DictSet(active_streams, message_id,
                                 StreamEntry(prompt, now + 1, r))
    /\ now' = now + 1
    /\ gen_pc' = [gen_pc EXCEPT ![r] = "created"]

\* return sse_handler.create_sse_response(prompt, message_id)
SseChatCreate(r) ==
    /\ req_pc[r] = "create"
    /\ create_sse_response(r, Unquote(req_args[r].prompt), req_args[r].message_id)
    /\ response' = [response EXCEPT ![r] = "200 text/event-stream"]
    /\ req_pc' = [req_pc EXCEPT ![r] = "done"]
    /\ UNCHANGED <<splitVars, processed_messages, processed_other, req_args,
                   pushed, delivered, keepalives, thread_pc, cb, ntok, call>>

\* one round of the cleanup thread's loop
Cleanup ==
    /\ IF ProcessedLen > CLEANUP_THRESHOLD
       THEN /\ processed_messages' = {}
            /\ processed_other' = 0
       ELSE UNCHANGED <<processed_messages, processed_other>>
    /\ UNCHANGED <<splitVars, active_streams, now, req_pc, req_args, response,
                   queue, pushed, delivered, keepalives, gen_pc, thread_pc, cb,
                   ntok, call>>

(***************************************************************************)
(* generate(), the response generator of one create_sse_response call.     *)
(***************************************************************************)
\* the message_id captured by the closures of request r's call
IdOf(r) == req_args[r].message_id

\* the first iteration: the LLM and the callback are made and the run_llm
\* thread is started
GenStart(r) ==
    /\ gen_pc[r] = "created"
    /\ cb' = [cb EXCEPT ![r] = NewCallback(IdOf(r))]
    /\ thread_pc' = [thread_pc EXCEPT ![r] = "invoke"]
    /\ gen_pc' = [gen_pc EXCEPT ![r] = "get"]
    /\ UNCHANGED <<splitVars, processed_messages, processed_other, active_streams,
                   now, req_pc, req_args, response, queue, pushed, delivered,
                   keepalives, ntok, call>>

\* the first iteration raises before the thread is started: the except
\* clause yields a "Stream error" event and the finally clause follows
GenStartFails(r) ==
    /\ gen_pc[r] = "created"
    /\ delivered' = [delivered EXCEPT
                       ![r] = Append(@, ErrorEvent(IdOf(r), "Stream error"))]
    /\ gen_pc' = [gen_pc EXCEPT ![r] = "finally"]
    /\ UNCHANGED <<splitVars, processed_messages, processed_other, active_streams,
                   now, req_pc, req_args, response, queue, pushed, keepalives,
                   thread_pc, cb, ntok, call>>

\* mutant: the thread is joined without a timeout
GenGet_joins_forever(r) ==
    /\ gen_pc[r] = "get"
    /\ queue[r] # <<>>
    /\ queue' = [queue EXCEPT ![r] = Tail(@)]
    /\ IF Head(queue[r]) = NoneEvent
       THEN /\ thread_pc[r] = "done"
            /\ gen_pc' = [gen_pc EXCEPT ![r] = "finally"]
            /\ UNCHANGED delivered
       ELSE /\ delivered' = [delivered EXCEPT ![r] = Append(@, Head(queue[r]))]
            /\ UNCHANGED gen_pc
    /\ UNCHANGED <<splitVars, processed_messages, processed_other, active_streams,
                   now, req_pc, req_args, response, pushed, keepalives,
                   thread_pc, cb, ntok, call>>

\* mutant: the loop does not stop at None
GenGet_ignores_sentinel(r) ==
    /\ gen_pc[r] = "get"
    /\ queue[r] # <<>>
    /\ queue' = [queue EXCEPT ![r] = Tail(@)]
    /\ IF Head(queue[r]) = NoneEvent
       THEN UNCHANGED delivered
       ELSE delivered' = [delivered EXCEPT ![r] = Append(@, Head(queue[r]))]
    /\ UNCHANGED <<splitVars, processed_messages, processed_other, active_streams,
                   now, req_pc, req_args, response, pushed, keepalives, gen_pc,
                   thread_pc, cb, ntok, call>>

\* event_queue.get returns an item.  An event is yielded.  None leaves the
\* loop: llm_thread.join(timeout=5) returns, whether or not the thread is
\* over, the closing newline is yielded and the finally clause is entered.
GenGet(r) ==
    /\ gen_pc[r] = "get"
    /\ queue[r] # <<>>
    /\ queue' = [queue EXCEPT ![r] = Tail(@)]
    /\ IF Head(queue[r]) = NoneEvent
       THEN /\ gen_pc' = [gen_pc EXCEPT ![r] = "finally"]
            /\ UNCHANGED delivered
       ELSE /\ delivered' = [delivered EXCEPT ![r] = Append(@, Head(queue[r]))]
            /\ UNCHANGED gen_pc
    /\ UNCHANGED <<splitVars, processed_messages, processed_other, active_streams,
                   now, req_pc, req_args, response, pushed, keepalives,
                   thread_pc, cb, ntok, call>>

RECURSIVE SumOver(_, _)
SumOver(f, S) ==
    IF S = {} THEN 0
    ELSE LET x == CHOOSE y \in S : TRUE IN f[x] + SumOver(f, S \ {x})

\* keep-alive lines sent so far, over all responses
KeepAlivesSent == SumOver(keepalives, Requests)

\* mutant: a timeout ends the pull loop
GenTimeout_closes(r) ==
    /\ gen_pc[r] = "get"
    /\ queue[r] = <<>>
    /\ KeepAlivesSent < MaxKeepAlives
    /\ keepalives' = [keepalives EXCEPT ![r] = @ + 1]
    /\ gen_pc' = [gen_pc EXCEPT ![r] = "finally"]
    /\ UNCHANGED <<splitVars, processed_messages, processed_other, active_streams,
                   now, req_pc, req_args, response, queue, pushed, delivered,
                   thread_pc, cb, ntok, call>>

\* event_queue.get times out on the empty queue: a keep-alive line is yielded
GenTimeout(r) ==
    /\ gen_pc[r] = "get"
    /\ queue[r] = <<>>
    /\ KeepAlivesSent < MaxKeepAlives
    /\ keepalives' = [keepalives EXCEPT ![r] = @ + 1]
    /\ UNCHANGED <<splitVars, processed_messages, processed_other, active_streams,
                   now, req_pc, req_args, response, queue, pushed, delivered,
                   gen_pc, thread_pc, cb, ntok, call>>

\* the client has gone: the server closes the generator, GeneratorExit is
\* raised at the yield where it is suspended and the finally clause runs
GenDisconnect(r) ==
    /\ gen_pc[r] = "get"
    /\ delivered[r] # <<>> \/ keepalives[r] > 0
    /\ gen_pc' = [gen_pc EXCEPT ![r] = "finally"]
    /\ UNCHANGED <<splitVars, processed_messages, processed_other, active_streams,
                   now, req_pc, req_args, response, queue, pushed, delivered,
                   keepalives, thread_pc, cb, ntok, call>>

\* finally: if message_id in self.active_streams
GenFinallyCheck(r) ==
    /\ gen_pc[r] = "finally"
    /\ gen_pc' = [gen_pc EXCEPT
                    ![r] = IF IdOf(r) \in DOMAIN active_streams
                           THEN "finally_del" ELSE "done"]
    /\ UNCHANGED <<splitVars, processed_messages, processed_other, active_streams,
                   now, req_pc, req_args, response, queue, pushed, delivered,
                   keepalives, thread_pc, cb, ntok, call>>

\* mutant: the finally clause leaves the entry in place
GenFinallyDel_keeps_entry(r) ==
    /\ gen_pc[r] = "finally_del"
    /\ gen_pc' = [gen_pc EXCEPT ![r] = "done"]
    /\ UNCHANGED <<splitVars, processed_messages, processed_other, active_streams,
                   now, req_pc, req_args, response, queue, pushed, delivered,
                   keepalives, thread_pc, cb, ntok, call>>

\* finally: del self.active_streams[message_id]
GenFinallyDel(r) ==
    /\ gen_pc[r] = "finally_del"
    /\ IF IdOf(r) \in DOMAIN active_streams
       THEN /\ active_streams' = DictDel(active_streams, IdOf(r))
            /\ gen_pc' = [gen_pc EXCEPT ![r] = "done"]
       ELSE /\ gen_pc' = [gen_pc EXCEPT ![r] = "KeyError"]
            /\ UNCHANGED active_streams
    /\ UNCHANGED <<splitVars, processed_messages, processed_other, now, req_pc,
                   req_args, response, queue, pushed, delivered, keepalives,
                   thread_pc, cb, ntok, call>>

(***************************************************************************)
(* run_llm, the worker thread of one generate().                           *)
(***************************************************************************)
\* tokens the LLM may deliver within a streamed response: text below the
\* threshold, which stays in the buffer, text that is flushed at once, and a tag
StreamTokens == { <<"a", "b">>, <<"a", "b", "c">>, OPEN_TAG }

\* what a callback method did, applied to request r
\* mutant: one callback state shared by all sessions
Callback_shared(r, result) ==
    /\ cb' = [q \in Requests |-> result.cb]
    /\ Put(r, result.put, "callback")

Callback(r, result) ==
    /\ cb' = [cb EXCEPT ![r] = result.cb]
    /\ Put(r, result.put, "callback")

LlmStart(r) ==
    /\ thread_pc[r] = "invoke"
    /\ Callback(r, on_llm_start(cb[r]))
    /\ thread_pc' = [thread_pc EXCEPT ![r] = "running"]
    /\ UNCHANGED <<splitVars, processed_messages, processed_other, active_streams,
                   now, req_pc, req_args, response, delivered, keepalives,
                   gen_pc, ntok, call>>

LlmNewToken(r, token) ==
    /\ thread_pc[r] = "running"
    /\ ntok[r] < MaxStreamTokens
    /\ Callback(r, on_llm_new_token(cb[r], token))
    /\ ntok' = [ntok EXCEPT ![r] = @ + 1]
    /\ UNCHANGED <<splitVars, processed_messages, processed_other, active_streams,
                   now, req_pc, req_args, response, delivered, keepalives,
                   gen_pc, thread_pc, call>>

LlmEnd(r) ==
    /\ thread_pc[r] = "running"
    /\ Callback(r, on_llm_end(cb[r]))
    /\ thread_pc' = [thread_pc EXCEPT ![r] = "done"]
    /\ UNCHANGED <<splitVars, processed_messages, processed_other, active_streams,
                   now, req_pc, req_args, response, delivered, keepalives,
                   gen_pc, ntok, call>>

\* the LLM fails while generating: LangChain calls on_llm_error and lets the
\* exception leave llm.invoke
LlmError(r) ==
    /\ thread_pc[r] = "running"
    /\ Callback(r, on_llm_error(cb[r], "llm failed"))
    /\ thread_pc' = [thread_pc EXCEPT ![r] = "raising"]
    /\ UNCHANGED <<splitVars, processed_messages, processed_other, active_streams,
                   now, req_pc, req_args, response, delivered, keepalives,
                   gen_pc, ntok, call>>

\* the except clause of run_llm, for an exception raised before any callback
\* ran or one that on_llm_error has already reported
RunLlmExcept(r) ==
    /\ thread_pc[r] \in {"invoke", "raising"}
    /\ Put(r, <<ErrorEvent(IdOf(r), "llm failed"), NoneEvent>>, "run_llm")
    /\ thread_pc' = [thread_pc EXCEPT ![r] = "done"]
    /\ UNCHANGED <<splitVars, processed_messages, processed_other, active_streams,
                   now, req_pc, req_args, response, delivered, keepalives,
                   gen_pc, cb, ntok, call>>

(***************************************************************************)
(* stop_stream and get_stream_status, called by other code on its own      *)
(* thread.                                                                 *)
(***************************************************************************)
\* get_stream_status run without interruption at time t
get_stream_status(streams, message_id, t) ==
    IF message_id \in DOMAIN streams
    THEN [kind |-> "status", active |-> TRUE,
          duration |-> t - streams[message_id].start_time,
          content_length |-> Len(streams[message_id].content)]
    ELSE [kind |-> "status", active |-> FALSE]

Returned(result) ==
    [pc |-> "idle", op |-> call.op, message_id |-> call.message_id,
     result |-> result, calls |-> call.calls]

\* stop_stream: if message_id in self.active_streams
StopStreamCheck(message_id) ==
    /\ call.pc = "idle"
    /\ call.calls < MaxCalls
    /\ call' = IF message_id \in DOMAIN active_streams
               THEN [pc |-> "stop_put", op |-> "stop_stream",
                     message_id |-> message_id, result |-> [kind |-> "none"],
                     calls |-> call.calls + 1]
               ELSE [pc |-> "idle", op |-> "stop_stream",
                     message_id |-> message_id,
                     result |-> [kind |-> "bool", value |-> FALSE],
                     calls |-> call.calls + 1]
    /\ UNCHANGED <<splitVars, processed_messages, processed_other, active_streams,
                   now, req_pc, req_args, response, queue, pushed, delivered,
                   keepalives, gen_pc, thread_pc, cb, ntok>>

\* mutant: stop_stream also ends the generation thread
StopStreamPut_interrupts ==
    /\ call.pc = "stop_put"
    /\ IF call.message_id \in DOMAIN active_streams
       THEN /\ Put(active_streams[call.message_id].queue, <<NoneEvent>>, "stop_stream")
            /\ thread_pc' = [thread_pc EXCEPT
                               ![active_streams[call.message_id].queue] = "done"]
            /\ call' = [call EXCEPT !.pc = "stop_del"]
       ELSE /\ call' = Returned([kind |-> "KeyError"])
            /\ UNCHANGED <<queue, pushed, thread_pc>>
    /\ UNCHANGED <<splitVars, processed_messages, processed_other, active_streams,
                   now, req_pc, req_args, response, delivered, keepalives,
                   gen_pc, cb, ntok>>

\* stop_stream: self.active_streams[message_id]['queue'].put(None)
StopStreamPut ==
    /\ call.pc = "stop_put"
    /\ IF call.message_id \in DOMAIN active_streams
       THEN /\ Put(active_streams[call.message_id].queue, <<NoneEvent>>, "stop_stream")
            /\ call' = [call EXCEPT !.pc = "stop_del"]
       ELSE /\ call' = Returned([kind |-> "KeyError"])
            /\ UNCHANGED <<queue, pushed>>
    /\ UNCHANGED <<splitVars, processed_messages, processed_other, active_streams,
                   now, req_pc, req_args, response, delivered, keepalives,
                   gen_pc, thread_pc, cb, ntok>>

\* stop_stream: del self.active_streams[message_id]; return True
StopStreamDel ==
    /\ call.pc = "stop_del"
    /\ IF call.message_id \in DOMAIN active_streams
       THEN /\ active_streams' = DictDel(active_streams, call.message_id)
            /\ call' = Returned([kind |-> "bool", value |-> TRUE])
       ELSE /\ call' = Returned([kind |-> "KeyError"])
            /\ UNCHANGED active_streams
    /\ UNCHANGED <<splitVars, processed_messages, processed_other, now, req_pc,
                   req_args, response, queue, pushed, delivered, keepalives,
                   gen_pc, thread_pc, cb, ntok>>

\* get_stream_status: if message_id in self.active_streams
GetStatusCheck(message_id) ==
    /\ call.pc = "idle"
    /\ call.calls < MaxCalls
    /\ call' = IF message_id \in DOMAIN active_streams
               THEN [pc |-> "status_read", op |-> "get_stream_status",
                     message_id |-> message_id, result |-> [kind |-> "none"],
                     calls |-> call.calls + 1]
               ELSE [pc |-> "idle", op |-> "get_stream_status",
                     message_id |-> message_id,
                     result |-> get_stream_status(active_streams, message_id, now),
                     calls |-> call.calls + 1]
    /\ UNCHANGED <<splitVars, processed_messages, processed_other, active_streams,
                   now, req_pc, req_args, response, queue, pushed, delivered,
                   keepalives, gen_pc, thread_pc, cb, ntok>>

\* get_stream_status: stream_info = self.active_streams[message_id]; return
GetStatusRead ==
    /\ call.pc = "status_read"
    /\ IF call.message_id \in DOMAIN active_streams
       THEN /\ call' = Returned(get_stream_status(active_streams, call.message_id, now + 1))
            /\ now' = now + 1
       ELSE /\ call' = Returned([kind |-> "KeyError"])
            /\ UNCHANGED now
    /\ UNCHANGED <<splitVars, processed_messages, processed_other, active_streams,
                   req_pc, req_args, response, queue, pushed, delivered,
                   keepalives, gen_pc, thread_pc, cb, ntok>>

(***************************************************************************)
(* Spec: the application as app_langchain_example.py wires it: requests to *)
(* /api/sse/chat on concurrent threads, their streamed responses and the   *)
(* cleanup thread.  The application never calls stop_stream or             *)
(* get_stream_status.                                                      *)
(***************************************************************************)
Next ==
    \/ \E r \in Requests, prompt \in Prompts \cup {""} :
         \E message_id \in IdsFor(r) \cup {""} :
            SseChatCheck(r, prompt, message_id)
    \/ \E r \in Requests : SseChatAdd(r)
    \/ \E r \in Requests : SseChatCreate(r)
    \/ Cleanup
    \/ \E r \in Requests : GenStart(r)
    \/ \E r \in Requests : GenStartFails(r)
    \/ \E r \in Requests : GenGet(r)
    \/ \E r \in Requests : GenTimeout(r)
    \/ \E r \in Requests : GenDisconnect(r)
    \/ \E r \in Requests : GenFinallyCheck(r)
    \/ \E r \in Requests : GenFinallyDel(r)
    \/ \E r \in Requests : LlmStart(r)
    \/ \E r \in Requests, token \in StreamTokens : LlmNewToken(r, token)
    \/ \E r \in Requests : LlmEnd(r)
    \/ \E r \in Requests : LlmError(r)
    \/ \E r \in Requests : RunLlmExcept(r)

Spec == Init /\ [][Next]_vars

(***************************************************************************)
(* SpecHandler: one streamed response, with other code calling the         *)
(* handler's stop_stream and get_stream_status on a thread of its own.     *)
(***************************************************************************)
\* the request whose response is streamed
TheRequest == {1}

NextHandler ==
    \/ \E r \in TheRequest, prompt \in Prompts \cup {""} :
         \E message_id \in IdsFor(r) \cup {""} :
            SseChatCheck(r, prompt, message_id)
    \/ \E r \in TheRequest : SseChatAdd(r)
    \/ \E r \in TheRequest : SseChatCreate(r)
    \/ \E r \in TheRequest : GenStart(r)
    \/ \E r \in TheRequest : GenStartFails(r)
    \/ \E r \in TheRequest : GenGet(r)
    \/ \E r \in TheRequest : GenTimeout(r)
    \/ \E r \in TheRequest : GenDisconnect(r)
    \/ \E r \in TheRequest : GenFinallyCheck(r)
    \/ \E r \in TheRequest : GenFinallyDel(r)
    \/ \E r \in TheRequest : LlmStart(r)
    \/ \E r \in TheRequest, token \in StreamTokens : LlmNewToken(r, token)
    \/ \E r \in TheRequest : LlmEnd(r)
    \/ \E r \in TheRequest : LlmError(r)
    \/ \E r \in TheRequest : RunLlmExcept(r)
    \/ \E message_id \in MessageIds : StopStreamCheck(message_id)
    \/ StopStreamPut
    \/ StopStreamDel
    \/ \E message_id \in MessageIds : GetStatusCheck(message_id)
    \/ GetStatusRead

SpecHandler == Init /\ [][NextHandler]_vars

\* SpecHandlerFair: SpecHandler with a client that keeps consuming the
\* response, so that generate() is resumed whenever it can go on: a pull
\* that finds an item returns, and the finally clause runs to its end.
\* Nothing is assumed of the generation thread, which may never end, nor of
\* the caller of stop_stream.
SpecHandlerFair ==
    /\ SpecHandler
    /\ \A r \in TheRequest :
          /\ WF_vars(GenGet(r))
          /\ WF_vars(GenFinallyCheck(r))
          /\ WF_vars(GenFinallyDel(r))


(***************************************************************************)
(* Reading an event sequence.                                              *)
(***************************************************************************)
RECURSIVE Flatten(_)
\* the concatenation of a sequence of texts
Flatten(ss) == IF ss = <<>> THEN <<>> ELSE Head(ss) \o Flatten(Tail(ss))

RECURSIVE OfTypes(_, _)
\* the events of es whose type is in types, in order
OfTypes(es, types) ==
    IF es = <<>> THEN <<>>
    ELSE (IF Head(es).type \in types THEN <<Head(es)>> ELSE <<>>)
         \o OfTypes(Tail(es), types)

CountType(es, type) == Len(OfTypes(es, {type}))

\* the chunks of the content events of es, concatenated in emission order
ContentText(es) ==
    LET cs == OfTypes(es, {"content"})
    IN  Flatten([i \in 1..Len(cs) |-> cs[i].chunk])

\* some content chunk of es holds a piece (of at least one character) of tag
HasTagFragment(es, tag) ==
    \E i \in 1..Len(es) :
        /\ es[i].type = "content"
        /\ \E piece \in TagPieces(tag) : Contains(es[i].chunk, piece)

(***************************************************************************)
(* Claims about the splitter (SpecSplit).                                  *)
(***************************************************************************)
\* the two tokens obtained by cutting tag after its k-th character
CutInTwo(tag, k) == <<TakeFirst(tag, k), DropFirst(tag, k)>>

\* C1: a delimiter cut at any position between two consecutive feeds is still
\* recognised: '<think>' fed in two pieces gives exactly one thinking_start
\* and no content chunk holding a fragment of the tag, and '</think>' fed in
\* two pieces inside a thinking section gives exactly one thinking_end.
C1_CutTagReassembled ==
    llm_pc = "ended" =>
        /\ \A k \in 1..(Len(OPEN_TAG) - 1) :
             fed = CutInTwo(OPEN_TAG, k) =>
                /\ CountType(event_queue, "thinking_start") = 1
                /\ ~HasTagFragment(event_queue, OPEN_TAG)
        /\ \A k \in 1..(Len(CLOSE_TAG) - 1) :
             fed = <<OPEN_TAG>> \o CutInTwo(CLOSE_TAG, k) =>
                /\ CountType(event_queue, "thinking_end") = 1
                /\ ~HasTagFragment(event_queue, CLOSE_TAG)

\* the full_content carried by the stream_complete event of es
CompleteFull(es) == OfTypes(es, {"stream_complete"})[1].full_content

TagEvents(es) == OfTypes(es, {"thinking_start", "thinking_end"})

\* C5: the events are well nested: thinking_start and thinking_end strictly
\* alternate starting with thinking_start, the starts exceed the ends by at
\* most one, and in_thinking tells whether a section is open.
C5_WellNested ==
    LET tags == TagEvents(event_queue)
        starts == CountType(event_queue, "thinking_start")
        ends == CountType(event_queue, "thinking_end")
    IN  /\ \A i \in 1..Len(tags) :
             tags[i].type = (IF i % 2 = 1 THEN "thinking_start" ELSE "thinking_end")
        /\ starts - ends \in {0, 1}
        /\ callback.in_thinking = (starts - ends = 1)

\* a section was opened, closed and opened again
C5_Witness ==
    /\ CountType(event_queue, "thinking_start") = 2
    /\ CountType(event_queue, "thinking_end") = 1
    /\ callback.in_thinking

\* the fed tokens, concatenated, hold neither tag
DelimiterFree(text) == ~Contains(text, OPEN_TAG) /\ ~Contains(text, CLOSE_TAG)

\* C6: when the concatenation of the fed tokens holds neither tag, the splitter
\* has emitted, after end of generation, only content events between
\* stream_start and stream_complete, and their chunks concatenate to the input.
C6_PlainTextPassesThrough ==
    (llm_pc = "ended" /\ DelimiterFree(Flatten(fed))) =>
        /\ \A i \in 1..Len(event_queue) :
             event_queue[i].type \in {"stream_start", "content", "stream_complete", "None"}
        /\ CountType(event_queue, "thinking_start") = 0
        /\ CountType(event_queue, "thinking_end") = 0
        /\ ContentText(event_queue) = Flatten(fed)

\* tag-free input that holds pieces of a tag, fed in three tokens, with a
\* residue below the threshold flushed at the end
C6_Witness ==
    /\ llm_pc = "ended"
    /\ Len(fed) = 3
    /\ DelimiterFree(Flatten(fed))
    /\ Contains(Flatten(fed), <<"<", "t", "h">>)
    /\ CountType(event_queue, "content") = 2

\* C7: P + '<think>' + T + '</think>' + S fed as a single token, P, T and S
\* non-empty and without a tag, gives stream_start, content(P),
\* thinking_start, content(T), thinking_end, then content chunks that
\* concatenate to S, then stream_complete.
C7_WrappedSingleToken ==
    \A P \in Plains, T \in Plains, S \in Plains :
        (llm_pc = "ended" /\ fed = <<Wrapped(P, T, S)>>) =>
            /\ Len(event_queue) >= 7
            /\ SubSeq(event_queue, 1, 5) =
                 << StreamStartEvent(SplitId),
                    ContentEvent(SplitId, P),
                    ThinkingStartEvent(SplitId),
                    ContentEvent(SplitId, T),
                    ThinkingEndEvent(SplitId) >>
            /\ LET tail == SubSeq(event_queue, 6, Len(event_queue) - 2)
               IN  /\ \A i \in 1..Len(tail) : tail[i].type = "content"
                   /\ ContentText(tail) = S
            /\ event_queue[Len(event_queue) - 1].type = "stream_complete"
            /\ event_queue[Len(event_queue)] = NoneEvent

\* the single wrapped token was fed and generation ended, once with S below
\* the threshold
C7_Witness ==
    /\ llm_pc = "ended"
    /\ fed = <<Wrapped(<<"a", "b", "c", "d">>, <<"a">>, <<"a">>)>>
    /\ Len(event_queue) = 8


(***************************************************************************)
(* Claims about the endpoint and the registry (Spec).                      *)
(***************************************************************************)
\* request r has been received with both parameters present
Valid(r) ==
    /\ req_pc[r] # "new"
    /\ req_args[r].prompt # ""
    /\ req_args[r].message_id # ""

\* create_sse_response has been called for request r
HasSession(r) == gen_pc[r] # "none"

\* the run_llm thread of request r has been started
GenerationStarted(r) == thread_pc[r] # "none"

\* C3: of two requests carrying the same message_id, under every interleaving
\* and with the cleanup thread running, only one starts a generation task and
\* only one creates a session; the other returns "Message already processed".
C3_OneGenerationPerMessageId ==
    \A r1 \in Requests, r2 \in Requests :
        (r1 # r2 /\ Valid(r1) /\ Valid(r2) /\ IdOf(r1) = IdOf(r2)) =>
            /\ ~(GenerationStarted(r1) /\ GenerationStarted(r2))
            /\ ~(HasSession(r1) /\ HasSession(r2))
            /\ (req_pc[r1] = "done" /\ req_pc[r2] = "done") =>
                 \E r \in {r1, r2} : response[r] = "200 Message already processed"

\* C9: an identifier that is registered keeps its entry (prompt, start time,
\* queue) for as long as it stays registered: create_sse_response does not
\* replace it.
C9_RegisteredEntryKept ==
    [][\A m \in DOMAIN active_streams :
          m \in DOMAIN active_streams' => active_streams'[m] = active_streams[m]]_vars

\* request r was refused for a missing or empty parameter
Refused(r) == response[r] = "400 Missing required parameters"

\* C10: a request whose prompt or message_id is missing or empty gets the 400
\* response, and the step that refuses it changes nothing else: no registry
\* entry, no processed identifier, no queue, generator or thread.
C10_MissingParameterRefused ==
    /\ [](\A r \in Requests :
            (req_pc[r] # "new" /\ (req_args[r].prompt = "" \/ req_args[r].message_id = ""))
               => /\ Refused(r)
                  /\ req_pc[r] = "done"
                  /\ ~HasSession(r)
                  /\ ~GenerationStarted(r))
    /\ [][\A r \in Requests :
            (Refused(r)' /\ ~Refused(r)) =>
               UNCHANGED <<active_streams, processed_messages, processed_other,
                           queue, pushed, delivered, gen_pc, thread_pc, cb>>]_vars

\* a request without message_id was refused while another request's stream
\* was registered
C10_Witness ==
    \E r \in Requests :
        /\ Refused(r)
        /\ req_args[r].message_id = ""
        /\ req_args[r].prompt # ""
        /\ DOMAIN active_streams # {}

(***************************************************************************)
(* Claims about one streamed response and its cancellation (SpecHandler).  *)
(***************************************************************************)
\* generate() of request r is over, normally or with an exception
Ended(r) == gen_pc[r] \in {"done", "KeyError"}

\* C4: at the step that ends a stream - the finally clause of generate(),
\* reached after completion, an error event, a failure to start, a client
\* disconnect or a sentinel pushed by stop_stream - and at the step at which
\* stop_stream, having found the stream, returns or raises, the message_id is
\* not in active_streams and get_stream_status reports it inactive.
C4_EndedStreamNotRegistered ==
    [][/\ \A r \in Requests :
            (~Ended(r) /\ Ended(r)') =>
               /\ IdOf(r) \notin DOMAIN active_streams'
               /\ ~get_stream_status(active_streams', IdOf(r), now').active
       /\ (call.pc \in {"stop_put", "stop_del"} /\ call'.pc = "idle") =>
               /\ call.message_id \notin DOMAIN active_streams'
               /\ ~get_stream_status(active_streams', call.message_id, now').active]_vars

\* a stream that delivered events has ended with its own finally clause
\* deleting the entry
C4_Witness ==
    /\ gen_pc[1] = "done"
    /\ Len(delivered[1]) >= 2
    /\ call.calls = 0
    /\ active_streams = <<>>

\* stop_stream has put its sentinel on the queue of request r
Cancelled(r) == \E i \in 1..Len(pushed[r]) : pushed[r][i].by = "stop_stream"

\* the place, in the history of puts, of the sentinel put by stop_stream
CancelIndex(r) ==
    CHOOSE i \in 1..Len(pushed[r]) :
        /\ pushed[r][i].by = "stop_stream"
        /\ \A j \in 1..(i - 1) : pushed[r][j].by # "stop_stream"

\* how many items generate() has taken from the queue of request r
Taken(r) == Len(pushed[r]) - Len(queue[r])

\* C8 as stated: once stop_stream has pushed the sentinel, the Response
\* Streamer, pulling from the queue, delivers no further event, whatever was
\* queued.
C8_NoEventAfterCancel ==
    [][\A r \in Requests :
          (Cancelled(r) /\ gen_pc[r] = "get") => delivered'[r] = delivered[r]]_vars

\* C8 as amended: stop_stream(id) on a registered identifier appends the
\* sentinel to the queue held by the registry entry and then removes the
\* entry; the Response Streamer observes closure when it pulls that sentinel,
\* after the events queued ahead of it: it takes nothing from the queue beyond
\* the sentinel, so no event pushed after the cancellation is delivered.
C8_CancelClosesAfterQueuedEvents ==
    /\ [](\A r \in Requests :
            Cancelled(r) =>
               /\ Taken(r) <= CancelIndex(r)
               /\ Taken(r) = CancelIndex(r) => gen_pc[r] # "get"
               /\ \A i \in 1..Len(delivered[r]) :
                    \/ delivered[r][i] = ErrorEvent(IdOf(r), "Stream error")
                    \/ \E j \in 1..(CancelIndex(r) - 1) :
                         pushed[r][j].event = delivered[r][i])
    /\ [][(call.pc = "stop_put" /\ call'.pc = "stop_del") =>
            LET q == active_streams[call.message_id].queue
            IN  /\ queue'[q] = Append(queue[q], NoneEvent)
                /\ \A r \in Requests \ {q} : queue'[r] = queue[r]]_vars
    /\ [][(call.pc = "stop_del" /\ call'.result = [kind |-> "bool", value |-> TRUE]) =>
            call.message_id \notin DOMAIN active_streams']_vars

\* the stream was cancelled while events were queued, the streamer then
\* delivered them, pulled the sentinel and stopped, and the generation thread
\* pushed more afterwards
C8_Witness ==
    /\ Cancelled(1)
    /\ Taken(1) = CancelIndex(1)
    /\ CancelIndex(1) >= 3
    /\ Len(delivered[1]) = CancelIndex(1) - 1
    /\ Len(pushed[1]) > CancelIndex(1)
    /\ call.result = [kind |-> "bool", value |-> TRUE]


(***************************************************************************)
(* Claims about the end of a streamed response (SpecHandler).              *)
(***************************************************************************)
\* the items put on the queue of request r so far, without who put them
PushedEvents(r) == [i \in 1..Len(pushed[r]) |-> pushed[r][i].event]

\* the items put on the queue of request r by the step being taken
NewlyPushed(r) == SubSeq(PushedEvents(r)', Len(pushed[r]) + 1, Len(pushed'[r]))

\* the pull loop of request r was left by pulling a sentinel
TerminatedBySentinel(r) ==
    /\ Taken(r) > 0
    /\ PushedEvents(r)[Taken(r)] = NoneEvent

\* the last event delivered to the client of request r, if any
LastDelivered(r) == delivered[r][Len(delivered[r])]

\* C11: on normal end of generation a non-empty residual buffer, however
\* short, is put as a last content event, then one stream_complete carrying
\* full_content, then the sentinel; so, absent cancellation, no event follows
\* a delivered stream_complete, and a response that ran to the sentinel of a
\* normally ended generation has stream_complete as its last event.
C11_CompleteIsLast ==
    /\ [][\A r \in Requests :
            (thread_pc[r] = "running" /\ thread_pc'[r] = "done") =>
               LET new == NewlyPushed(r)
                   n == Len(new)
               IN  /\ n = (IF cb[r].buffer # <<>> THEN 3 ELSE 2)
                   /\ cb[r].buffer # <<>> => new[1] = ContentEvent(IdOf(r), cb[r].buffer)
                   /\ new[n - 1] = StreamCompleteEvent(IdOf(r), cb[r].full_content)
                   /\ new[n] = NoneEvent
                   /\ cb'[r].buffer = <<>>]_vars
    /\ [](\A r \in Requests :
            ~Cancelled(r) =>
               /\ CountType(PushedEvents(r), "stream_complete") <= 1
               /\ \A i \in 1..Len(delivered[r]) :
                    delivered[r][i].type = "stream_complete" => i = Len(delivered[r])
               /\ (TerminatedBySentinel(r) /\ thread_pc[r] = "done"
                     /\ CountType(PushedEvents(r), "stream_complete") = 1)
                    => /\ delivered[r] # <<>>
                       /\ LastDelivered(r).type = "stream_complete")

\* a response ended at the sentinel after delivering a residue of two
\* characters and then stream_complete
C11_Witness ==
    /\ Ended(1)
    /\ ~Cancelled(1)
    /\ TerminatedBySentinel(1)
    /\ Len(delivered[1]) = 3
    /\ delivered[1][2] = ContentEvent("m1", <<"a", "b">>)
    /\ delivered[1][3].type = "stream_complete"

\* the failure of the generation of request r has been reported on its queue
UpstreamFailed(r) == CountType(PushedEvents(r), "error") > 0

\* C12: when the upstream generation fails - through on_llm_error, through
\* an exception leaving llm.invoke, or both - then, absent cancellation, a
\* response that runs to the sentinel has an error event as its last
\* delivered event and no stream_complete, and once it is over its
\* identifier is out of the registry.
C12_UpstreamErrorEndsStream ==
    \A r \in Requests :
        (UpstreamFailed(r) /\ ~Cancelled(r) /\ TerminatedBySentinel(r)) =>
            /\ delivered[r] # <<>>
            /\ LastDelivered(r) = ErrorEvent(IdOf(r), "llm failed")
            /\ CountType(delivered[r], "error") = 1
            /\ CountType(delivered[r], "stream_complete") = 0
            /\ gen_pc[r] # "get"
            /\ Ended(r) => IdOf(r) \notin DOMAIN active_streams

\* a generation failed after a token, on_llm_error and the except clause of
\* run_llm both reported it, and the response ended at the first sentinel
C12_Witness ==
    /\ Ended(1)
    /\ ~Cancelled(1)
    /\ TerminatedBySentinel(1)
    /\ CountType(PushedEvents(1), "error") = 2
    /\ Len(delivered[1]) = 3
    /\ Len(queue[1]) = 2

(***************************************************************************)
(* Claims about the pull loop (SpecHandler).                               *)
(***************************************************************************)
\* s is an initial part of t
IsPrefix(s, t) == Len(s) <= Len(t) /\ s = SubSeq(t, 1, Len(s))

\* the position of the first sentinel put on the queue of request r, or one
\* past the last item when no sentinel was put
FirstSentinel(r) ==
    IF \E i \in 1..Len(pushed[r]) : pushed[r][i].event = NoneEvent
    THEN CHOOSE i \in 1..Len(pushed[r]) :
            /\ pushed[r][i].event = NoneEvent
            /\ \A j \in 1..(i - 1) : pushed[r][j].event # NoneEvent
    ELSE Len(pushed[r]) + 1

\* the events put on the queue of request r before the first sentinel
BeforeFirstSentinel(r) == SubSeq(PushedEvents(r), 1, FirstSentinel(r) - 1)

\* C13: a timeout of the pull is not a closure: the step that sends a
\* keep-alive line sends one, found the queue empty, stays in the pull loop
\* and changes neither the registry nor the queue nor what was delivered;
\* the loop is left only by pulling the sentinel or by the exception raised
\* in the generator when the client has gone; and with keep-alives sent the
\* events delivered are still the events put, in order and without a gap.
C13_TimeoutIsNotClosure ==
    /\ [][\A r \in Requests :
            /\ keepalives'[r] # keepalives[r] =>
                  /\ keepalives'[r] = keepalives[r] + 1
                  /\ gen_pc[r] = "get" /\ gen_pc'[r] = "get"
                  /\ queue[r] = <<>> /\ queue'[r] = <<>>
                  /\ active_streams' = active_streams
                  /\ delivered'[r] = delivered[r]
                  /\ pushed'[r] = pushed[r]
            /\ (gen_pc[r] = "get" /\ gen_pc'[r] # "get") =>
                  \/ /\ queue[r] # <<>>
                     /\ Head(queue[r]) = NoneEvent
                     /\ queue'[r] = Tail(queue[r])
                  \/ /\ delivered[r] # <<>> \/ keepalives[r] > 0
                     /\ queue'[r] = queue[r]
                     /\ delivered'[r] = delivered[r]
                     /\ keepalives'[r] = keepalives[r]]_vars
    /\ [](\A r \in Requests :
            keepalives[r] > 0 =>
               /\ IsPrefix(delivered[r], PushedEvents(r))
               /\ Taken(r) - Len(delivered[r]) \in {0, 1})

\* a keep-alive line was sent while the session was registered and the
\* generation had not ended, and the response then ran to stream_complete
C13_Witness ==
    /\ keepalives[1] = 1
    /\ gen_pc[1] = "get"
    /\ "m1" \in DOMAIN active_streams
    /\ delivered[1] # <<>>
    /\ LastDelivered(1).type = "stream_complete"
    /\ queue[1] = <<NoneEvent>>

\* C14 as stated: the data messages delivered are events put on the queue
\* before the first sentinel, in order, and all of them once the sentinel
\* was pulled.
C14_DeliveredIsChannelContent ==
    \A r \in Requests :
        /\ IsPrefix(delivered[r], BeforeFirstSentinel(r))
        /\ TerminatedBySentinel(r) => delivered[r] = BeforeFirstSentinel(r)

\* generate() of request r failed before its pull loop: the except clause
\* yielded the "Stream error" message, which was never on the queue
StartFailed(r) ==
    /\ thread_pc[r] = "none"
    /\ delivered[r] = <<ErrorEvent(IdOf(r), "Stream error")>>

\* C14 amended: what was delivered is either the one "Stream error" message
\* of a generate() that failed before pulling, or an initial part of the
\* events put on the queue before the first sentinel: one message per item
\* pulled, in order, and all of them once the sentinel was pulled.
C14_DeliveredIsChannelPrefix ==
    \A r \in Requests :
        \/ StartFailed(r) /\ Taken(r) = 0
        \/ /\ IsPrefix(delivered[r], BeforeFirstSentinel(r))
           /\ Len(delivered[r]) = Taken(r) - (IF TerminatedBySentinel(r) THEN 1 ELSE 0)
           /\ TerminatedBySentinel(r) =>
                 /\ delivered[r] = BeforeFirstSentinel(r)
                 /\ Taken(r) = FirstSentinel(r)

\* a response delivered three events, a keep-alive line among them, and
\* then pulled the sentinel
C14_Witness ==
    /\ TerminatedBySentinel(1)
    /\ keepalives[1] = 1
    /\ Len(delivered[1]) = 3
    /\ delivered[1] = BeforeFirstSentinel(1)
    /\ delivered[1][2].type = "thinking_start"

\* C15: whatever the interleaving of stop_stream, get_stream_status and the
\* finally clause of generate() on one identifier, none of them raises
\* KeyError on an entry removed in between.
C15_NoKeyError ==
    /\ \A r \in Requests : gen_pc[r] # "KeyError"
    /\ call.result.kind # "KeyError"

(***************************************************************************)
(* Claims about concurrent sessions (Spec).                                *)
(***************************************************************************)
RECURSIVE Render(_)
\* the text a client rebuilds from the events es: the chunk of a content
\* event, the tag a thinking event stands for, nothing for the other events
Render(es) ==
    IF es = <<>> THEN <<>>
    ELSE LET e == Head(es)
         IN  (CASE e.type = "content" -> e.chunk
                [] e.type = "thinking_start" -> OPEN_TAG
                [] e.type = "thinking_end" -> CLOSE_TAG
                [] OTHER -> <<>>)
             \o Render(Tail(es))

\* C16: sessions are isolated.  A step that feeds a token to one session
\* leaves the callback state (buffer, in_thinking, full_content) and the
\* queue of every other session as they were; the items on a session's queue
\* were put by its own generation thread and spell, with its buffer, its own
\* full_content; every event delivered on a response was taken from the
\* queue of that response, or is its own "Stream error", and carries its
\* message_id.
C16_SessionsIsolated ==
    /\ [][\A r, q \in Requests :
            (r # q /\ ntok'[r] # ntok[r]) =>
               /\ cb'[q] = cb[q]
               /\ queue'[q] = queue[q]
               /\ pushed'[q] = pushed[q]
               /\ delivered'[q] = delivered[q]]_vars
    /\ [](\A r \in Requests :
            /\ \A i \in 1..Len(pushed[r]) :
                  /\ pushed[r][i].by \in {"callback", "run_llm"}
                  /\ pushed[r][i].event # NoneEvent =>
                        pushed[r][i].event.message_id = IdOf(r)
            /\ Render(PushedEvents(r)) \o cb[r].buffer = cb[r].full_content
            /\ StartFailed(r) \/ IsPrefix(delivered[r], PushedEvents(r))
            /\ \A i \in 1..Len(delivered[r]) : delivered[r][i].message_id = IdOf(r))

\* two sessions with different identifiers and different tokens, each
\* delivered to its own client
C16_Witness ==
    /\ IdOf(1) = "m1"
    /\ IdOf(2) = "m2"
    /\ \E i \in 1..Len(delivered[1]) : delivered[1][i] = ContentEvent("m1", <<"a", "b", "c">>)
    /\ \E j \in 1..Len(delivered[2]) : delivered[2][j] = ThinkingStartEvent("m2")
    /\ cb[1].full_content = <<"a", "b", "c">>
    /\ cb[2].full_content = OPEN_TAG

(***************************************************************************)
(* Claims about cancellation and termination (SpecHandler).                *)
(***************************************************************************)
\* the items put on the queue of request r after the sentinel of stop_stream
AfterCancel(r) == SubSeq(PushedEvents(r), CancelIndex(r) + 1, Len(pushed[r]))

\* the last n items of the sequence s
LastItems(s, n) == SubSeq(s, Len(s) - n + 1, Len(s))

\* C17: cancellation is best-effort.  No step of stop_stream changes the
\* position or the callback state of the generation thread, which, once the
\* stream is cancelled, can still end and still puts its events on the
\* queue; and whatever was put after the sentinel of stop_stream stays on
\* the queue: it is never pulled, so never delivered.
C17_CancelIsBestEffort ==
    /\ [][call' # call =>
            /\ thread_pc' = thread_pc
            /\ cb' = cb
            /\ ntok' = ntok]_vars
    /\ [](\A r \in Requests :
            (Cancelled(r) /\ thread_pc[r] = "running") => ENABLED LlmEnd(r))
    /\ [][\A r \in Requests :
            (Cancelled(r) /\ thread_pc[r] # "none" /\ thread_pc'[r] # thread_pc[r]) =>
               /\ Len(NewlyPushed(r)) > 0
               /\ queue'[r] = queue[r] \o NewlyPushed(r)]_vars
    /\ [](\A r \in Requests :
            Cancelled(r) =>
               /\ Len(AfterCancel(r)) <= Len(queue[r])
               /\ LastItems(queue[r], Len(AfterCancel(r))) = AfterCancel(r))

\* the session was cancelled and removed from the registry, the response is
\* over, and the generation thread is still running: it has since put
\* stream_start and a content event, both still on the queue
C17_Witness ==
    /\ Cancelled(1)
    /\ "m1" \notin DOMAIN active_streams
    /\ Ended(1)
    /\ thread_pc[1] = "running"
    /\ Len(AfterCancel(1)) = 2
    /\ AfterCancel(1)[2] = ContentEvent("m1", <<"a", "b", "c">>)
    /\ queue[1] = AfterCancel(1)

\* the generation thread of request r has ended, normally or in the except
\* clause of run_llm
GenerationEnded(r) == thread_pc[r] = "done"

\* C18: a response that is in its pull loop, once its generation has ended
\* or stop_stream has put its sentinel, eventually leaves the loop, gets
\* through the bounded join whether or not the thread is over, ends, and
\* leaves its identifier out of the registry.
C18_StreamTerminates ==
    \A r \in TheRequest :
        (gen_pc[r] = "get" /\ (GenerationEnded(r) \/ Cancelled(r)))
            ~> (Ended(r) /\ IdOf(r) \notin DOMAIN active_streams)

\* a cancelled response has pulled the sentinel of stop_stream and ended,
\* out of the registry, while its generation thread is still running
C18_Witness ==
    /\ gen_pc[1] = "done"
    /\ Cancelled(1)
    /\ Taken(1) = CancelIndex(1)
    /\ thread_pc[1] = "running"
    /\ "m1" \notin DOMAIN active_streams
    /\ queue[1] = <<>>

(***************************************************************************)
(* Claim about the cleanup of processed_messages (Spec).                   *)
(***************************************************************************)
\* C19: a cleanup that finds more than 1000 identifiers keeps the most
\* recent ones: the identifiers of the requests just served, which are
\* newer than the 1000 earlier ones, are still in processed_messages after
\* the cleanup step.
C19_CleanupKeepsRecent ==
    [][processed_other' # processed_other =>
          processed_messages \subseteq processed_messages']_vars

(***************************************************************************)
(* Claim about the splitter's round trip (SpecSplit).                      *)
(***************************************************************************)
\* C20: at normal end of generation the events put on the queue, read in
\* order with each content event as its chunk, thinking_start as '<think>'
\* and thinking_end as '</think>', spell exactly the tokens fed, which is
\* the full_content of stream_complete.
C20_RoundTrip ==
    llm_pc = "ended" =>
        /\ Render(event_queue) = Flatten(fed)
        /\ Render(event_queue) = CompleteFull(event_queue)

\* an open tag cut over two tokens, then a token holding a whole thinking
\* section, and the end of generation
C20_Witness ==
    /\ llm_pc = "ended"
    /\ Len(fed) = 3
    /\ fed[1] = TakeFirst(OPEN_TAG, 3)
    /\ fed[2] = DropFirst(OPEN_TAG, 3)
    /\ fed[3] = Wrapped(<<"a">>, <<"a">>, <<"a">>)
    /\ CountType(event_queue, "thinking_start") = 1
    /\ CountType(event_queue, "thinking_end") = 1

OwnEntry(r, streams) ==
    /\ IdOf(r) \in DOMAIN streams
    /\ streams[IdOf(r)].queue = r

\* C22: the finally clause of one generate() removes only its own entry: a
\* response that is still pulling events and whose identifier is registered
\* with its own queue is still so registered after the finally clause of
\* another generate() has deleted an entry.
C22_TeardownRemovesOwnEntry ==
    [][\A r, q \in Requests :
          (/\ r # q
           /\ gen_pc[r] = "finally_del" /\ gen_pc'[r] = "done"
           /\ gen_pc[q] = "get"
           /\ OwnEntry(q, active_streams))
             => OwnEntry(q, active_streams')]_vars

=============================================================================
